---------------------------- MODULE Spec2Model ----------------------------
(***************************************************************************)
(* A model of dan1306/HTTPServer.                                          *)
(*                                                                         *)
(* The repository holds two programs over the same transport adapter:      *)
(*   src/src/index.ts       the echo server (compiled to src/dist/index.js)*)
(*   src/unnamed/part_000   the HTTP server that grew out of it            *)
(*                                                                         *)
(* Bytes are integers 0..255 and a Buffer is a sequence of bytes.  A       *)
(* thrown exception is a record [kind, code, msg].                         *)
(*                                                                         *)
(* part_000 reads four names that nothing defines, each one letter away   *)
(* from a definition of the file, and holds one object literal without its *)
(* colon:                                                                  *)
(*   line 100   buffPop(buf, idx + 4)            bufPop                    *)
(*   line 222   filedGet(req.headers, ...)       fieldGet                  *)
(*              (and line 233 reads buf, the parameter being BUF)          *)
(*   line 385   readFromReq(conn, buff, msg)     readerFromReq, buf        *)
(*   line 438   body resp,                       body: resp,               *)
(* As written, the file is not accepted by a JavaScript or TypeScript      *)
(* parser (line 438), and each of the three calls throws a ReferenceError  *)
(* when it is reached.  The variable resolved holds the names that the     *)
(* program run has bound to the definitions on the right; it is chosen at  *)
(* the start and never changes.  With resolved = {} the model is the text  *)
(* as written.  In newConn's catch, exc is read where the caught value is  *)
(* exec and resp is read outside its block (lines 319 to 326).  String     *)
(* literals are kept as written ('Content-Lengtg', 'Head', 'chuncked').    *)
(* The functions the file calls and nowhere defines (splitLines,           *)
(* parseHTTPRequestLine, validateHeader, fieldGet, parseDec,               *)
(* encodeHTTPResp, HTTPError) are modelled from the specification's        *)
(* description of them.                                                    *)
(***************************************************************************)
EXTENDS Integers, Sequences, FiniteSets, TLC

(***************************************************************************)
(* Bytes and byte strings                                                  *)
(***************************************************************************)
CR == 13
LF == 10
SP == 32
COLON == 58
CRLF == <<CR, LF>>
\* '\r\n\r\n', the end-of-header marker
HeaderEnd == <<CR, LF, CR, LF>>

\* 'GET'
S_GET == <<71,69,84>>
\* 'Head'
S_Head == <<72,101,97,100>>
\* 'Content-Lengtg'
S_ContentLengtg == <<67,111,110,116,101,110,116,45,76,101,110,103,116,103>>
\* 'Content-Length'
S_ContentLength == <<67,111,110,116,101,110,116,45,76,101,110,103,116,104>>
\* 'Transfer-Encoding'
S_TransferEncoding == <<84,114,97,110,115,102,101,114,45,69,110,99,111,100,105,110,103>>
\* 'chuncked'
S_chuncked == <<99,104,117,110,99,107,101,100>>
\* '/echo'
S_echo == <<47,101,99,104,111>>
\* '1.0'
S_10 == <<49,46,48>>
\* 'HTTP/'
S_HTTP == <<72,84,84,80,47>>
\* 'Server: my_first_http_server'
S_ServerField == <<83,101,114,118,101,114,58,32,109,121,95,102,105,114,115,116,95,104,116,116,112,95,115,101,114,118,101,114>>
\* 'hello world.\n'
S_HelloWorld == <<104,101,108,108,111,32,119,111,114,108,100,46,10>>

Max(a, b) == IF a >= b THEN a ELSE b
Min(a, b) == IF a <= b THEN a ELSE b
SetMin(S) == CHOOSE x \in S : \A y \in S : x <= y

\* buf.subarray(0, len).indexOf(pat): the least 0-based offset at which pat
\* occurs within the first len bytes of data, or -1
indexOf(data, len, pat) ==
    LET hits == {i \in 0..(len - Len(pat)) :
                    \A k \in 1..Len(pat) : data[i + k] = pat[k]}
    IN  IF hits = {} THEN -1 ELSE SetMin(hits)

\* ASCII lower case of one byte
Lower(b) == IF b >= 65 /\ b <= 90 THEN b + 32 ELSE b
LowerStr(s) == [i \in 1..Len(s) |-> Lower(s[i])]

IsDigit(b) == b >= 48 /\ b <= 57

\* the decimal digits of a natural number, as bytes
RECURSIVE FmtDec(_)
FmtDec(n) == IF n < 10 THEN <<48 + n>> ELSE FmtDec(n \div 10) \o <<48 + (n % 10)>>

(***************************************************************************)
(* Exceptions                                                              *)
(***************************************************************************)
HTTPError(code, msg) == [kind |-> "HTTPError", code |-> code, msg |-> msg]
PlainError(msg) == [kind |-> "Error", code |-> 0, msg |-> msg]
\* an error object delivered by the socket ('error' event or write callback)
SocketError(e) == [kind |-> "SocketError", code |-> 0, msg |-> e]
NoExc == [kind |-> "none", code |-> 0, msg |-> ""]
\* reading a name that nothing defines
ReferenceError(msg) == [kind |-> "ReferenceError", code |-> 0, msg |-> msg]
\* the parser's error at line 438 of part_000
SyntaxError(msg) == [kind |-> "SyntaxError", code |-> 0, msg |-> msg]

\* the misspelled names of part_000 that are bound to the definitions they
\* misspell
VARIABLE resolved
Misspelled == {"buffPop", "filedGet", "readFromReq", "body resp"}

(***************************************************************************)
(* DynBuf: [data |-> the backing Buffer, length |-> the occupied length]   *)
(***************************************************************************)
\* the max length of an HTTP header
kMaxHeaderLen == 1024 * 8

\* the initial buffer of serveClient: {data: Buffer.alloc(0), length: 0}
EmptyBuf == [data |-> <<>>, length |-> 0]

\* bufPush growing the buffer to just the length needed
GrowCapExact(cap, newLen) == newLen

\* the doubling loop of bufPush
RECURSIVE GrowCap(_, _)
GrowCap(cap, newLen) == IF cap < newLen THEN GrowCap(cap * 2, newLen) ELSE cap

\* Buffer.alloc(n): n zero bytes
Alloc(n) == [i \in 1..n |-> 0]

\* bufPush without buf.data.copy(grown, 0, 0): the grown Buffer stays zeroed
bufPushNoCopy(buf, data) ==
    LET newLen == buf.length + Len(data)
        grown  == IF Len(buf.data) < newLen
                  THEN Alloc(GrowCap(Max(Len(buf.data), 32), newLen))
                  ELSE buf.data
    IN  [data   |-> SubSeq(grown, 1, buf.length) \o data
                        \o SubSeq(grown, newLen + 1, Len(grown)),
         length |-> newLen]

\* append data to DynBuf
bufPush(buf, data) ==
    LET newLen == buf.length + Len(data)
        grown  == IF Len(buf.data) < newLen
                  THEN LET cap == GrowCap(Max(Len(buf.data), 32), newLen)
                       IN  buf.data \o Alloc(cap - Len(buf.data))
                  ELSE buf.data
    IN  [data   |-> SubSeq(grown, 1, buf.length) \o data
                        \o SubSeq(grown, newLen + 1, Len(grown)),
         length |-> newLen]

\* bufPop without the copyWithin: only buf.length -= len
bufPopNoShift(buf, len) ==
    [data |-> buf.data, length |-> buf.length - len]

\* buf.data.copyWithin(0, len, buf.length); buf.length -= len
bufPop(buf, len) ==
    [data   |-> SubSeq(buf.data, len + 1, buf.length)
                    \o SubSeq(buf.data, buf.length - len + 1, Len(buf.data)),
     length |-> buf.length - len]

\* the occupied bytes of a buffer
Occupied(buf) == SubSeq(buf.data, 1, buf.length)

(***************************************************************************)
(* Header parsing                                                          *)
(***************************************************************************)
\* the lines of data, each ended by CRLF; bytes after the last CRLF, if any,
\* make a last line
RECURSIVE LinesFrom(_, _, _)
LinesFrom(data, start, P) ==
    IF P = {}
    THEN IF start <= Len(data) THEN <<SubSeq(data, start, Len(data))>> ELSE <<>>
    ELSE LET p == SetMin(P)
         IN  <<SubSeq(data, start, p - 1)>>
                 \o LinesFrom(data, p + 2, {q \in P : q >= p + 2})

splitLines(data) ==
    LinesFrom(data, 1,
              {i \in 1..(Len(data) - 1) : data[i] = CR /\ data[i + 1] = LF})

IsPrefix(p, s) == Len(p) <= Len(s) /\ \A i \in 1..Len(p) : s[i] = p[i]

\* 'METHOD URI VERSION': exactly three tokens separated by single spaces;
\* the version is what follows 'HTTP/'
parseHTTPRequestLine(line) ==
    LET sp == {i \in 1..Len(line) : line[i] = SP}
    IN  IF Cardinality(sp) # 2
        THEN [t |-> "throw", exc |-> HTTPError(400, "bad request line")]
        ELSE LET s1  == SetMin(sp)
                 s2  == SetMin(sp \ {s1})
                 ver == SubSeq(line, s2 + 1, Len(line))
             IN  IF ~IsPrefix(S_HTTP, ver)
                 THEN [t |-> "throw", exc |-> HTTPError(400, "bad request line")]
                 ELSE [t |-> "ok",
                       method  |-> SubSeq(line, 1, s1 - 1),
                       uri     |-> SubSeq(line, s1 + 1, s2 - 1),
                       version |-> SubSeq(ver, Len(S_HTTP) + 1, Len(ver))]

\* 'Name: value' with a non-empty name that holds no CR or LF
validateHeader(h) ==
    LET c == {i \in 1..Len(h) : h[i] = COLON}
    IN  /\ c # {}
        /\ SetMin(c) > 1
        /\ \A i \in 1..(SetMin(c) - 1) : h[i] # CR /\ h[i] # LF

parseHTTPReq(data) ==
    LET lines == splitLines(data)
        rl    == parseHTTPRequestLine(lines[1])
        hs    == SubSeq(lines, 2, Len(lines) - 1)
    IN  IF rl.t = "throw" THEN rl
        ELSE IF \E i \in 1..Len(hs) : ~validateHeader(hs[i])
        THEN [t |-> "throw", exc |-> HTTPError(400, "bad field")]
        ELSE [t |-> "ok",
              msg |-> [method |-> rl.method, uri |-> rl.uri,
                       version |-> rl.version, headers |-> hs]]

\* cutMessage with the size test written > for >=
cutMessageGreater(buf) ==
    LET idx == indexOf(buf.data, buf.length, HeaderEnd)
    IN  IF idx < 0
        THEN IF buf.length > kMaxHeaderLen
             THEN [t |-> "throw", exc |-> HTTPError(413, "header is too large")]
             ELSE [t |-> "null"]
        ELSE LET r == parseHTTPReq(SubSeq(buf.data, 1, idx + 4))
             IN  IF r.t = "throw" THEN r
                 ELSE IF "buffPop" \notin resolved
                 THEN [t |-> "throw",
                       exc |-> ReferenceError("buffPop is not defined")]
                 ELSE [t |-> "msg", msg |-> r.msg, buf |-> bufPop(buf, idx + 4)]

\* parse & remove a header from the beginning of the buffer if possible:
\* [t |-> "null"], [t |-> "throw", exc], or [t |-> "msg", msg, buf]
cutMessage(buf) ==
    LET idx == indexOf(buf.data, buf.length, HeaderEnd)
    IN  IF idx < 0
        THEN IF buf.length >= kMaxHeaderLen
             THEN [t |-> "throw", exc |-> HTTPError(413, "header is too large")]
             ELSE [t |-> "null"]
        ELSE LET r == parseHTTPReq(SubSeq(buf.data, 1, idx + 4))
             IN  IF r.t = "throw" THEN r
                 ELSE IF "buffPop" \notin resolved
                 THEN [t |-> "throw",
                       exc |-> ReferenceError("buffPop is not defined")]
                 ELSE [t |-> "msg", msg |-> r.msg, buf |-> bufPop(buf, idx + 4)]

(***************************************************************************)
(* Body readers                                                            *)
(***************************************************************************)
IsBlank(b) == b = SP \/ b = 9

\* the value of a field line: what follows the first colon, without the
\* blanks around it
FieldValue(h) ==
    LET c    == SetMin({i \in 1..Len(h) : h[i] = COLON})
        keep == {i \in (c + 1)..Len(h) : ~IsBlank(h[i])}
    IN  IF keep = {} THEN <<>>
        ELSE SubSeq(h, SetMin(keep), CHOOSE x \in keep : \A y \in keep : y <= x)

FieldName(h) == SubSeq(h, 1, SetMin({i \in 1..Len(h) : h[i] = COLON}) - 1)

\* the value of the first field named key (names compare without case):
\* [found |-> FALSE] when there is none
fieldGet(headers, key) ==
    LET hit == {i \in 1..Len(headers) :
                   /\ \E j \in 1..Len(headers[i]) : headers[i][j] = COLON
                   /\ LowerStr(FieldName(headers[i])) = LowerStr(key)}
    IN  IF hit = {} THEN [found |-> FALSE, val |-> <<>>]
        ELSE [found |-> TRUE, val |-> FieldValue(headers[SetMin(hit)])]

RECURSIVE DecValue(_)
DecValue(s) ==
    IF Len(s) = 0 THEN 0
    ELSE 10 * DecValue(SubSeq(s, 1, Len(s) - 1)) + (s[Len(s)] - 48)

\* a decimal number, or NaN
parseDec(s) ==
    IF Len(s) > 0 /\ \A i \in 1..Len(s) : IsDigit(s[i])
    THEN [nan |-> FALSE, val |-> DecValue(s)]
    ELSE [nan |-> TRUE, val |-> 0]

\* BodyReader from a socket with a known length
readerFromConnLength(remain) ==
    [kind |-> "conn", length |-> remain, remain |-> remain,
     data |-> <<>>, done |-> FALSE]

\* readerFromMemory declaring one byte more than it holds
readerFromMemoryLonger(data) ==
    [kind |-> "mem", length |-> Len(data) + 1, remain |-> 0,
     data |-> data, done |-> FALSE]

\* BodyReader from in-memory data
readerFromMemory(data) ==
    [kind |-> "mem", length |-> Len(data), remain |-> 0,
     data |-> data, done |-> FALSE]

NoReader == [kind |-> "none", length |-> 0, remain |-> 0,
             data |-> <<>>, done |-> FALSE]

\* BodyReader from an HTTP request: [t |-> "ok", reader] or [t |-> "throw", exc]
readerFromReq(req) ==
    LET contentLen  == fieldGet(req.headers, S_ContentLengtg)
        parsed      == parseDec(contentLen.val)
        bodyLen     == IF contentLen.found THEN parsed.val ELSE -1
        bodyAllowed == ~(req.method = S_GET \/ req.method = S_Head)
        te          == fieldGet(req.headers, S_TransferEncoding)
        chunked     == te.found /\ te.val = S_chuncked
    IN  IF contentLen.found /\ parsed.nan
        THEN [t |-> "throw", exc |-> HTTPError(400, "bad Content-Length")]
        ELSE IF "filedGet" \notin resolved
        THEN [t |-> "throw", exc |-> ReferenceError("filedGet is not defined")]
        ELSE IF ~bodyAllowed /\ bodyLen > 0
        THEN [t |-> "throw", exc |-> HTTPError(400, "HTTP body not allowed.")]
        ELSE IF (IF ~bodyAllowed THEN 0 ELSE bodyLen) >= 0
        THEN [t |-> "ok",
              reader |-> readerFromConnLength(IF ~bodyAllowed THEN 0 ELSE bodyLen)]
        ELSE IF chunked
        THEN [t |-> "throw", exc |-> HTTPError(501, "TODO")]
        ELSE [t |-> "throw", exc |-> HTTPError(501, "TODO")]

\* the tail of readerFromConnLength's read taking all that is buffered,
\* without the Math.min against remain
ConsumeBodyAll(reader, b) ==
    LET consume == b.length
    IN  [reader |-> [reader EXCEPT !.remain = reader.remain - consume],
         data   |-> SubSeq(b.data, 1, consume),
         buf    |-> bufPop(b, consume)]

\* the tail of readerFromConnLength's read: consume data from the buffer
ConsumeBody(reader, b) ==
    LET consume == Min(b.length, reader.remain)
    IN  [reader |-> [reader EXCEPT !.remain = reader.remain - consume],
         data   |-> SubSeq(b.data, 1, consume),
         buf    |-> bufPop(b, consume)]

\* a sample request handler: the response before writeHTTPResp
\* (body "req" stands for the request's own BodyReader, returned for /echo)
\* [t |-> "ok", code, headers, body], or [t |-> "throw", exc] for the text as
\* written, which no parser accepts
handleReq(req) ==
    IF "body resp" \notin resolved
    THEN [t |-> "throw", exc |-> SyntaxError("Unexpected identifier 'resp'")]
    ELSE [t       |-> "ok",
          code    |-> 200,
          headers |-> <<S_ServerField>>,
          body    |-> IF req.uri = S_echo THEN "req" ELSE "mem"]

\* the status line, the field lines and the empty line of a response
RECURSIVE JoinLines(_)
JoinLines(hs) ==
    IF Len(hs) = 0 THEN <<>> ELSE Head(hs) \o CRLF \o JoinLines(Tail(hs))

Reason(code) == IF code = 200 THEN <<79, 75>> ELSE <<69, 114, 114, 111, 114>>

encodeHTTPResp(code, headers) ==
    S_HTTP \o <<49, 46, 49, SP>> \o FmtDec(code) \o <<SP>> \o Reason(code)
        \o CRLF \o JoinLines(headers) \o CRLF

(***************************************************************************)
(* Inputs: the byte streams a peer sends                                   *)
(***************************************************************************)
\* 'GET / HTTP/1.1\r\nHost: x\r\n\r\n'
I_Get == <<71,69,84,32,47,32,72,84,84,80,47,49,46,49,13,10,72,111,115,116,58,32,120,13,10,13,10>>
\* 'GET / HTTP/1.1\r\n\r\nGET /b HTTP/1.1\r\n\r\n'
I_Pipelined == <<71,69,84,32,47,32,72,84,84,80,47,49,46,49,13,10,13,10,71,69,84,32,47,98,32,72,84,84,80,47,49,46,49,13,10,13,10>>
\* 'POST /echo HTTP/1.1\r\nContent-Length: 5\r\n\r\nhello'
I_PostLength == <<80,79,83,84,32,47,101,99,104,111,32,72,84,84,80,47,49,46,49,13,10,67,111,110,116,101,110,116,45,76,101,110,103,116,104,58,32,53,13,10,13,10,104,101,108,108,111>>
\* 'POST /echo HTTP/1.1\r\nContent-Lengtg: 5\r\n\r\nhelloGET / HTTP/1.1\r\n\r\n'
I_PostLengtgEcho == <<80,79,83,84,32,47,101,99,104,111,32,72,84,84,80,47,49,46,49,13,10,67,111,110,116,101,110,116,45,76,101,110,103,116,103,58,32,53,13,10,13,10,104,101,108,108,111,71,69,84,32,47,32,72,84,84,80,47,49,46,49,13,10,13,10>>
\* 'POST /x HTTP/1.1\r\nContent-Lengtg: 3\r\n\r\nabcGET / HTTP/1.1\r\n\r\n'
I_PostLengtgDrain == <<80,79,83,84,32,47,120,32,72,84,84,80,47,49,46,49,13,10,67,111,110,116,101,110,116,45,76,101,110,103,116,103,58,32,51,13,10,13,10,97,98,99,71,69,84,32,47,32,72,84,84,80,47,49,46,49,13,10,13,10>>
\* 'GET / HTTP/1.1\r\nContent-Length: 18\r\n\r\nGET /x HTTP/1.1\r\n\r\n'
I_GetLength == <<71,69,84,32,47,32,72,84,84,80,47,49,46,49,13,10,67,111,110,116,101,110,116,45,76,101,110,103,116,104,58,32,49,56,13,10,13,10,71,69,84,32,47,120,32,72,84,84,80,47,49,46,49,13,10,13,10>>
\* 'GET / HTTP/1.1\r\nContent-Lengtg: 5\r\n\r\nhello'
I_GetLengtg == <<71,69,84,32,47,32,72,84,84,80,47,49,46,49,13,10,67,111,110,116,101,110,116,45,76,101,110,103,116,103,58,32,53,13,10,13,10,104,101,108,108,111>>
\* 'GET / HTTP/1.0\r\n\r\nGET / HTTP/1.1\r\n\r\n'
I_Http10 == <<71,69,84,32,47,32,72,84,84,80,47,49,46,48,13,10,13,10,71,69,84,32,47,32,72,84,84,80,47,49,46,49,13,10,13,10>>
\* 'BAD\r\n\r\n'
I_BadLine == <<66,65,68,13,10,13,10>>
\* 'GET / HTTP/1.1\r\n: v\r\n\r\n'
I_BadField == <<71,69,84,32,47,32,72,84,84,80,47,49,46,49,13,10,58,32,118,13,10,13,10>>
\* 'GET / HT'
I_Partial == <<71,69,84,32,47,32,72,84>>
\* 'HEAD / HTTP/1.1\r\nContent-Length: 5\r\n\r\nhello'
I_HeadLength == <<72,69,65,68,32,47,32,72,84,84,80,47,49,46,49,13,10,67,111,110,116,101,110,116,45,76,101,110,103,116,104,58,32,53,13,10,13,10,104,101,108,108,111>>
\* 'POST / HTTP/1.1\r\nTransfer-Encoding: chunked\r\n\r\n'
I_Chunked == <<80,79,83,84,32,47,32,72,84,84,80,47,49,46,49,13,10,84,114,97,110,115,102,101,114,45,69,110,99,111,100,105,110,103,58,32,99,104,117,110,107,101,100,13,10,13,10>>
\* 'POST /echo HTTP/1.1\r\nContent-Lengtg: 5\r\n\r\nhe'
I_ShortBody == <<80,79,83,84,32,47,101,99,104,111,32,72,84,84,80,47,49,46,49,13,10,67,111,110,116,101,110,116,45,76,101,110,103,116,103,58,32,53,13,10,13,10,104,101>>
\* 'HEAD / HTTP/1.1\r\n\r\n'
I_Head == <<72,69,65,68,32,47,32,72,84,84,80,47,49,46,49,13,10,13,10>>
\* 'POST /x HTTP/1.1\r\nContent-Lengtg: 3\r\n\r\na'
I_ShortDrain == <<80,79,83,84,32,47,120,32,72,84,84,80,47,49,46,49,13,10,67,111,110,116,101,110,116,45,76,101,110,103,116,103,58,32,51,13,10,13,10,97>>
\* 'GET / HTTP/1.1\r\nContent-Lengtg: x\r\n\r\n'
I_BadLengtg == <<71,69,84,32,47,32,72,84,84,80,47,49,46,49,13,10,67,111,110,116,101,110,116,45,76,101,110,103,116,103,58,32,120,13,10,13,10>>
\* 'hi\n'
I_Hi == <<104,105,10>>

\* how far beyond kMaxHeaderLen the long inputs reach
Over == 1

\* n bytes 'a'
Fill(n) == [i \in 1..n |-> 97]

\* 'GET /aaa...a HTTP/1.1\r\n\r\n', n bytes long in all
LongHeader(n) ==
    <<71,69,84,32,47>> \o Fill(n - 18) \o <<32,72,84,84,80,47,49,46,49,13,10,13,10>>

\* the offsets of bytes that end a '\r\n\r\n'
TermEnds(bytes) ==
    {i \in 4..Len(bytes) : \A k \in 1..4 : bytes[i - 4 + k] = HeaderEnd[k]}

\* an input: the bytes, and the offsets at which a chunk may end.  A chunk
\* may end after the third byte, one byte before the end of a header, at it,
\* two or five bytes behind it, and at the end of the stream
AnyCut(bytes) ==
    [bytes |-> bytes,
     cuts  |-> {p \in 1..Len(bytes) :
                   \/ p = 3 \/ p = Len(bytes)
                   \/ \E t \in TermEnds(bytes) : p - t \in {-1, 0, 2, 5}}]

AroundMax(bytes) ==
    [bytes |-> bytes,
     cuts  |-> {1, Len(bytes)}
                 \cup ((kMaxHeaderLen - 1)..(kMaxHeaderLen + Over) \cap 1..Len(bytes))]

HttpInputs ==
    {AnyCut(I_Get), AnyCut(I_Pipelined), AnyCut(I_PostLength),
     AnyCut(I_PostLengtgEcho), AnyCut(I_PostLengtgDrain), AnyCut(I_GetLength),
     AnyCut(I_GetLengtg), AnyCut(I_Http10), AnyCut(I_BadLine),
     AnyCut(I_BadField), AnyCut(I_Partial), AnyCut(I_HeadLength),
     AnyCut(I_Chunked), AnyCut(I_ShortBody), AnyCut(<<>>),
     AnyCut(I_Head), AnyCut(I_ShortDrain), AnyCut(I_BadLengtg),
     AroundMax(LongHeader(kMaxHeaderLen)),
     AroundMax(LongHeader(kMaxHeaderLen + Over)),
     AroundMax(Fill(kMaxHeaderLen + Over))}

EchoInputs == {AnyCut(I_Hi), AnyCut(I_Partial), AnyCut(<<>>)}

(***************************************************************************)
(* State                                                                   *)
(***************************************************************************)
VARIABLES
    entry,      \* the program run: "echo" (index.ts newConn), "http" (part_000
                \* newConn), "serve" (part_000 serveClient on its own), or
                \* "adapter" (soRead/soWrite under any sequential caller)
    stream,     \* the bytes the peer sends on this connection
    cuts,       \* the offsets of stream at which a chunk may end
    pos,        \* how many bytes of stream the socket has delivered
    sock,       \* the socket: [flowing, rstate, err, destroyed, lost]; err is
                \* the error it has emitted, destroyed counts socket.destroy(),
                \* lost the bytes of a chunk whose 'data' listener threw
                \* before any read was resolved with it
    listeners,  \* the adapters whose handlers are registered, in order
    conns,      \* adapter -> TCPConn [reader, err, ended]; reader is the
                \* number of the pending read's promise, 0 for null
    rd,         \* the promise of the latest soRead
    wr,         \* the promise of the latest soWrite
    buf,        \* serveClient's DynBuf
    pc,         \* where the connection's async function stands
    msg,        \* the request being served
    reqBody,    \* its BodyReader
    resp,       \* the response being written
    exc,        \* the exception that ended serveClient, if any
    out,        \* the bytes handed to socket.write so far
    asserts,    \* the console.assert calls that failed
    calls,      \* how often soRead, soWrite, socket.resume, socket.pause,
                \* socket.write were called and 'data' was emitted
    reqs,       \* the requests cutMessage has returned so far
    crashed,    \* an event handler threw: the process is gone
    last,       \* the step taken last
    consumed,   \* the bytes serveClient has taken out of its DynBuf so far: the
                \* headers cutMessage parsed, the chunks reqBody.read() returned
    op          \* the DynBuf call made last by a caller that uses the buffer
                \* alone: [name, data, n, k], k counts the calls

ioVars   == <<conns, rd, wr, sock, calls, asserts, out>>
loopVars == <<buf, msg, reqBody, resp, exc, reqs, consumed>>
envVars  == <<entry, stream, cuts, op, resolved>>
vars == <<entry, stream, cuts, pos, sock, listeners, conns, rd, wr, buf, pc,
          msg, reqBody, resp, exc, out, asserts, calls, reqs, crashed, last,
          consumed, op, resolved>>

Adapters == {"newConn", "serveClient"}
\* the error objects a socket reports
Errors == {"ECONNRESET", "EPIPE"}

NoMsg == [method |-> <<>>, uri |-> <<>>, version |-> <<>>, headers |-> <<>>]
NoResp == [code |-> 0, headers |-> <<>>, body |-> "none", mem |-> NoReader]
NoPromise == [id |-> 0, owner |-> "none", st |-> "none", data |-> <<>>, err |-> "null"]
NoOp == [name |-> "none", data |-> <<>>, n |-> 0, k |-> 0]

\* soInit's conn: {socket, reader: null, ended: false, err: null}
soInit == [reader |-> 0, err |-> "null", ended |-> FALSE]

(***************************************************************************)
(* The transport adapter                                                   *)
(***************************************************************************)
\* resolve or reject promise number id, if it is still pending
Settle(p, id, st, data, err) ==
    IF p.id = id /\ p.st = "pending"
    THEN [p EXCEPT !.st = st, !.data = data, !.err = err]
    ELSE p

\* what the handlers of one emitted event read and write
World ==
    [conns |-> conns, rd |-> rd, asserts |-> asserts, flowing |-> sock.flowing,
     pauses |-> calls.pause, crashed |-> crashed]

\* the 'data' handler without its last line, conn.reader = null
dataHandlerKeepsReader(w, id, data) ==
    LET c == w.conns[id]
        a == IF c.reader = 0 THEN w.asserts \cup {<<"data", id>>} ELSE w.asserts
    IN  IF c.reader = 0
        THEN [w EXCEPT !.asserts = a, !.flowing = FALSE, !.pauses = @ + 1,
                       !.crashed = TRUE]
        ELSE [w EXCEPT !.asserts = a, !.flowing = FALSE, !.pauses = @ + 1,
                       !.rd = Settle(w.rd, c.reader, "resolved", data, "null")]

\* socket.on('data', ...) of adapter id.  conn.reader!.resolve(data) with no
\* reader is a TypeError thrown out of the listener: nothing catches it
dataHandler(w, id, data) ==
    LET c == w.conns[id]
        a == IF c.reader = 0 THEN w.asserts \cup {<<"data", id>>} ELSE w.asserts
    IN  IF c.reader = 0
        THEN [w EXCEPT !.asserts = a, !.flowing = FALSE, !.pauses = @ + 1,
                       !.crashed = TRUE]
        ELSE [w EXCEPT !.asserts = a, !.flowing = FALSE, !.pauses = @ + 1,
                       !.rd = Settle(w.rd, c.reader, "resolved", data, "null"),
                       !.conns[id].reader = 0]

\* the 'end' handler without conn.ended = true
endHandlerForgetsEnded(w, id) ==
    LET c == w.conns[id]
    IN  IF c.reader # 0
        THEN [w EXCEPT !.rd = Settle(w.rd, c.reader, "resolved", <<>>, "null"),
                       !.conns[id].reader = 0]
        ELSE w

\* socket.on('end', ...) of adapter id
endHandler(w, id) ==
    LET c == w.conns[id]
    IN  IF c.reader # 0
        THEN [w EXCEPT !.conns[id].ended = TRUE,
                       !.rd = Settle(w.rd, c.reader, "resolved", <<>>, "null"),
                       !.conns[id].reader = 0]
        ELSE [w EXCEPT !.conns[id].ended = TRUE]

\* socket.on('error', ...) of adapter id
errorHandler(w, id, e) ==
    LET c == w.conns[id]
    IN  IF c.reader # 0
        THEN [w EXCEPT !.conns[id].err = e,
                       !.rd = Settle(w.rd, c.reader, "rejected", <<>>, e),
                       !.conns[id].reader = 0]
        ELSE [w EXCEPT !.conns[id].err = e]

\* emit: the listeners run in the order they were registered; a listener
\* that throws ends the emit
RECURSIVE EmitData(_, _, _)
EmitData(w, ids, data) ==
    IF ids = <<>> \/ w.crashed THEN w
    ELSE EmitData(dataHandler(w, Head(ids), data), Tail(ids), data)

RECURSIVE EmitEnd(_, _)
EmitEnd(w, ids) ==
    IF ids = <<>> \/ w.crashed THEN w
    ELSE EmitEnd(endHandler(w, Head(ids)), Tail(ids))

RECURSIVE EmitError(_, _, _)
EmitError(w, ids, e) ==
    IF ids = <<>> \/ w.crashed THEN w
    ELSE EmitError(errorHandler(w, Head(ids), e), Tail(ids), e)

\* soRead testing conn.ended before conn.err
soReadEndedFirst(id) ==
    LET c == conns[id]
        n == calls.soRead + 1
        p == [id |-> n, owner |-> id, st |-> "pending", data |-> <<>>, err |-> "null"]
    IN  /\ asserts' = IF c.reader # 0 THEN asserts \cup {<<"soRead", id>>}
                      ELSE asserts
        /\ IF c.ended
           THEN /\ rd' = [p EXCEPT !.st = "resolved"]
                /\ calls' = [calls EXCEPT !.soRead = n]
                /\ UNCHANGED <<conns, sock>>
           ELSE IF c.err # "null"
           THEN /\ rd' = [p EXCEPT !.st = "rejected", !.err = c.err]
                /\ calls' = [calls EXCEPT !.soRead = n]
                /\ UNCHANGED <<conns, sock>>
           ELSE /\ conns' = [conns EXCEPT ![id].reader = n]
                /\ rd' = p
                /\ sock' = [sock EXCEPT !.flowing = TRUE]
                /\ calls' = [calls EXCEPT !.soRead = n, !.resume = @ + 1]
        /\ UNCHANGED <<wr, out>>

soRead(id) ==
    LET c == conns[id]
        n == calls.soRead + 1
        p == [id |-> n, owner |-> id, st |-> "pending", data |-> <<>>, err |-> "null"]
    IN  /\ asserts' = IF c.reader # 0 THEN asserts \cup {<<"soRead", id>>}
                      ELSE asserts
        /\ IF c.err # "null"
           THEN /\ rd' = [p EXCEPT !.st = "rejected", !.err = c.err]
                /\ calls' = [calls EXCEPT !.soRead = n]
                /\ UNCHANGED <<conns, sock>>
           ELSE IF c.ended
           THEN /\ rd' = [p EXCEPT !.st = "resolved"]
                /\ calls' = [calls EXCEPT !.soRead = n]
                /\ UNCHANGED <<conns, sock>>
           ELSE /\ conns' = [conns EXCEPT ![id].reader = n]
                /\ rd' = p
                /\ sock' = [sock EXCEPT !.flowing = TRUE]
                /\ calls' = [calls EXCEPT !.soRead = n, !.resume = @ + 1]
        /\ UNCHANGED <<wr, out>>

\* conn.socket.write is net.Socket's: once the socket has emitted 'end' (the
\* server does not allow half-open connections) it sends nothing and reports
\* EPIPE to the callback, which the promise records here until WriteDone
soWrite(id, data) ==
    LET n == calls.soWrite + 1
        p == [id |-> n, owner |-> id, st |-> "pending", data |-> data, err |-> "null"]
    IN  /\ asserts' = IF Len(data) = 0 THEN asserts \cup {<<"soWrite", id>>}
                      ELSE asserts
        /\ IF conns[id].err # "null"
           THEN /\ wr' = [p EXCEPT !.st = "rejected", !.err = conns[id].err]
                /\ calls' = [calls EXCEPT !.soWrite = n]
                /\ out' = out
           ELSE IF sock.rstate = "ended"
           THEN /\ wr' = [p EXCEPT !.err = "EPIPE"]
                /\ calls' = [calls EXCEPT !.soWrite = n, !.write = @ + 1]
                /\ out' = out
           ELSE /\ wr' = p
                /\ calls' = [calls EXCEPT !.soWrite = n, !.write = @ + 1]
                /\ out' = out \o data
        /\ UNCHANGED <<conns, rd, sock>>

(***************************************************************************)
(* The socket's events.  An event of the network (a chunk, the peer's FIN, *)
(* a fault, the completion of a write) is handled when the connection's    *)
(* async function is suspended on a pending promise, or is over while the  *)
(* socket is still open (serveClient taken alone destroys nothing).  Two   *)
(* events are emitted by process.nextTick, which runs before the           *)
(* continuation of a promise settled in the same tick: 'end' after the     *)
(* 'data' that emptied the socket's buffer when the FIN was already in,    *)
(* and 'error' after the callback of a write that failed.  After 'end'     *)
(* node closes the socket in its own time: a write that fails after 'end'  *)
(* is followed by 'error' if the socket is not yet closed, by nothing if   *)
(* it is.                                                                  *)
(***************************************************************************)
Blocked ==
    \/ entry = "adapter"
    \/ rd.st = "pending" \/ wr.st = "pending"
    \/ pc = "done"
Listening == ~crashed /\ sock.destroyed = 0 /\ listeners # <<>>
\* socket.write's callback got an error and the function that awaits the
\* write has not resumed
AfterFailedWrite == wr.st = "rejected" /\ last = "written"
\* socket.write's callback got an error on a socket that has emitted neither
\* 'end' nor 'error': the 'error' that follows it has not been emitted yet
WriteFailed == wr.st = "rejected" /\ sock.rstate = "open"
CanEmit == Listening /\ Blocked /\ ~WriteFailed

\* a chunk arrives while the socket is flowing
SockData ==
    /\ CanEmit /\ sock.flowing /\ sock.rstate = "open" /\ pos < Len(stream)
    /\ \E q \in cuts :
        /\ q > pos
        /\ LET w == EmitData(World, listeners, SubSeq(stream, pos + 1, q))
           IN  /\ pos' = q
               /\ conns' = w.conns
               /\ rd' = w.rd
               /\ asserts' = w.asserts
               /\ crashed' = w.crashed
               /\ sock' = [sock EXCEPT !.flowing = w.flowing,
                                       !.lost = IF w.crashed /\ w.rd = rd
                                                THEN q - pos ELSE 0]
               /\ calls' = [calls EXCEPT !.pause = w.pauses, !.data = @ + 1]
    /\ last' = "data"
    /\ UNCHANGED <<wr, out, listeners, pc, loopVars, envVars>>

\* the peer's FIN, after all its bytes were delivered: 'end' is emitted
\* whether the socket is flowing or paused
SockEnd ==
    /\ Listening /\ ~WriteFailed
    /\ Blocked \/ last = "data"
    /\ sock.rstate = "open" /\ pos = Len(stream)
    /\ LET w == EmitEnd(World, listeners)
       IN  /\ conns' = w.conns
           /\ rd' = w.rd
           /\ sock' = [sock EXCEPT !.rstate = "ended"]
    /\ last' = "end"
    /\ UNCHANGED <<wr, out, listeners, pc, loopVars, envVars, pos, asserts,
                   crashed, calls>>

\* the socket fails: 'error' is emitted once, with the error of the write
\* that failed or with a fault of the connection
SockError ==
    /\ Listening /\ sock.rstate \in {"open", "ended"}
    /\ Blocked \/ WriteFailed \/ AfterFailedWrite
    /\ \E e \in IF WriteFailed \/ AfterFailedWrite THEN {wr.err} ELSE Errors :
        LET w == EmitError(World, listeners, e)
        IN  /\ conns' = w.conns
            /\ rd' = w.rd
            /\ sock' = [sock EXCEPT !.rstate = "errored", !.err = e]
    /\ last' = "error"
    /\ UNCHANGED <<wr, out, listeners, pc, loopVars, envVars, pos, asserts,
                   crashed, calls>>

\* the callback of socket.write
WriteDone ==
    /\ ~crashed /\ wr.st = "pending"
    /\ IF wr.err # "null"
       THEN wr' = [wr EXCEPT !.st = "rejected"]
       ELSE \/ wr' = [wr EXCEPT !.st = "resolved"]
            \/ \E e \in Errors : wr' = [wr EXCEPT !.st = "rejected", !.err = e]
    /\ last' = "written"
    /\ UNCHANGED <<conns, rd, sock, calls, asserts, out, listeners, pc,
                   loopVars, envVars, pos, crashed>>

(***************************************************************************)
(* The connection's async functions, one action per stretch of code        *)
(* between two awaits                                                      *)
(***************************************************************************)
NoIO == UNCHANGED ioVars
Fixed == UNCHANGED <<envVars, pos, listeners, crashed>>
Settled(p) == p.st \in {"resolved", "rejected"}

\* serveClient throws e: newConn's catch takes it ("serve" has no newConn
\* around it: the exception is the caller's)
Throw(e) == exc' = e /\ pc' = IF entry = "serve" THEN "done" ELSE "catch"
\* serveClient returns
Return == exc' = exc /\ pc' = IF entry = "serve" THEN "done" ELSE "finally"

\* the program's file was parsed and the server listens
Loaded == entry = "echo" \/ "body resp" \in resolved

\* the 'connection' event: newConn runs up to serveClient's loop
Accept ==
    /\ ~crashed /\ pc = "idle" /\ Loaded
    /\ listeners' = IF entry = "http" THEN <<"newConn", "serveClient">>
                    ELSE <<"serveClient">>
    /\ pc' = IF entry = "echo" THEN "echoLoop" ELSE "cut"
    /\ last' = "newConn"
    /\ NoIO
    /\ UNCHANGED <<envVars, pos, crashed, loopVars>>

\* index.ts serveClient: const data = await soRead(conn)
EchoRead ==
    /\ ~crashed /\ pc = "echoLoop"
    /\ soRead("serveClient")
    /\ pc' = "echoAwaitRead"
    /\ last' = "soRead"
    /\ Fixed /\ UNCHANGED loopVars

\* index.ts serveClient: the read is settled; break on EOF, else soWrite
EchoGot ==
    /\ ~crashed /\ pc = "echoAwaitRead" /\ Settled(rd)
    /\ UNCHANGED consumed
    /\ IF rd.st = "rejected"
       THEN Throw(SocketError(rd.err)) /\ NoIO /\ last' = "throw"
       ELSE IF Len(rd.data) = 0
       THEN Return /\ NoIO /\ last' = "return"
       ELSE /\ soWrite("serveClient", rd.data)
            /\ pc' = "echoAwaitWrite" /\ exc' = exc /\ last' = "soWrite"
    /\ Fixed /\ UNCHANGED <<buf, msg, reqBody, resp, reqs>>

\* index.ts serveClient: the write is settled
EchoWrote ==
    /\ ~crashed /\ pc = "echoAwaitWrite" /\ Settled(wr) /\ ~WriteFailed
    /\ UNCHANGED consumed
    /\ IF wr.st = "rejected"
       THEN Throw(SocketError(wr.err)) /\ last' = "throw"
       ELSE pc' = "echoLoop" /\ exc' = exc /\ last' = "loop"
    /\ NoIO /\ Fixed /\ UNCHANGED <<buf, msg, reqBody, resp, reqs>>

\* part_000 serveClient: try to get 1 request header from the buffer
Cut ==
    /\ ~crashed /\ pc = "cut"
    /\ LET r == cutMessage(buf)
       IN  IF r.t = "throw"
           THEN Throw(r.exc) /\ NoIO /\ UNCHANGED <<buf, msg, reqs, consumed>>
           ELSE IF r.t = "null"
           THEN /\ soRead("serveClient")
                /\ pc' = "hdrRead"
                /\ UNCHANGED <<buf, msg, reqs, exc, consumed>>
           ELSE /\ buf' = r.buf
                /\ msg' = r.msg
                /\ reqs' = Append(reqs, r.msg)
                /\ consumed' = consumed
                                   \o SubSeq(buf.data, 1, buf.length - r.buf.length)
                /\ pc' = "dispatch"
                /\ NoIO /\ UNCHANGED exc
    /\ last' = "cutMessage"
    /\ Fixed /\ UNCHANGED <<reqBody, resp>>

\* HdrGot without the second test of data.length == 0: every empty read
\* ends the loop by return
HdrGotEofReturns ==
    /\ ~crashed /\ pc = "hdrRead" /\ Settled(rd)
    /\ UNCHANGED consumed
    /\ IF rd.st = "rejected"
       THEN Throw(SocketError(rd.err)) /\ buf' = buf /\ last' = "throw"
       ELSE LET b == bufPush(buf, rd.data)
            IN  /\ buf' = b
                /\ IF Len(rd.data) = 0
                   THEN Return /\ last' = "return"
                   ELSE pc' = "cut" /\ exc' = exc /\ last' = "bufPush"
    /\ NoIO /\ Fixed /\ UNCHANGED <<msg, reqBody, resp, reqs>>

\* part_000 serveClient: the header read is settled
HdrGot ==
    /\ ~crashed /\ pc = "hdrRead" /\ Settled(rd)
    /\ UNCHANGED consumed
    /\ IF rd.st = "rejected"
       THEN Throw(SocketError(rd.err)) /\ buf' = buf /\ last' = "throw"
       ELSE LET b == bufPush(buf, rd.data)
            IN  /\ buf' = b
                /\ IF Len(rd.data) = 0 /\ b.length = 0
                   THEN Return /\ last' = "return"
                   ELSE IF Len(rd.data) = 0
                   THEN Throw(HTTPError(400, "Unexpected EOF.")) /\ last' = "throw"
                   ELSE pc' = "cut" /\ exc' = exc /\ last' = "bufPush"
    /\ NoIO /\ Fixed /\ UNCHANGED <<msg, reqBody, resp, reqs>>

\* part_000 serveClient: readerFromReq, handleReq, and writeHTTPResp up to
\* its first soWrite
Dispatch ==
    /\ ~crashed /\ pc = "dispatch"
    /\ UNCHANGED consumed
    /\ LET rr == readerFromReq(msg)
       IN  IF "readFromReq" \notin resolved
           THEN /\ Throw(ReferenceError("readFromReq is not defined"))
                /\ NoIO /\ UNCHANGED <<reqBody, resp>>
           ELSE IF rr.t = "throw"
           THEN Throw(rr.exc) /\ NoIO /\ UNCHANGED <<reqBody, resp>>
           ELSE LET res     == handleReq(msg)
                    body    == IF res.body = "req" THEN rr.reader
                               ELSE readerFromMemory(S_HelloWorld)
                    headers == Append(res.headers,
                                  S_ContentLength \o <<COLON, SP>> \o FmtDec(body.length))
                IN  /\ reqBody' = rr.reader
                    /\ resp' = [code |-> res.code, headers |-> headers,
                                body |-> res.body,
                                mem  |-> IF res.body = "mem" THEN body ELSE NoReader]
                    /\ IF body.length < 0
                       THEN Throw(PlainError("TODO: chunked encoding")) /\ NoIO
                       ELSE /\ soWrite("serveClient", encodeHTTPResp(res.code, headers))
                            /\ pc' = "hdrWrite" /\ exc' = exc
    /\ last' = "readerFromReq"
    /\ Fixed /\ UNCHANGED <<buf, msg, reqs>>

\* writeHTTPResp: the header write is settled
HdrWrote ==
    /\ ~crashed /\ pc = "hdrWrite" /\ Settled(wr) /\ ~WriteFailed
    /\ UNCHANGED consumed
    /\ IF wr.st = "rejected"
       THEN Throw(SocketError(wr.err)) /\ last' = "throw"
       ELSE pc' = "respRead" /\ exc' = exc /\ last' = "written"
    /\ NoIO /\ Fixed /\ UNCHANGED <<buf, msg, reqBody, resp, reqs>>

\* writeHTTPResp: const data = await resp.body.read(), then soWrite(data)
RespRead ==
    /\ ~crashed /\ pc = "respRead"
    /\ IF resp.body = "mem"
       THEN /\ IF resp.mem.done
               THEN pc' = "afterResp" /\ NoIO /\ resp' = resp /\ last' = "read"
               ELSE /\ resp' = [resp EXCEPT !.mem.done = TRUE]
                    /\ IF Len(resp.mem.data) = 0
                       THEN pc' = "afterResp" /\ NoIO /\ last' = "read"
                       ELSE /\ soWrite("serveClient", resp.mem.data)
                            /\ pc' = "bodyWrite" /\ last' = "soWrite"
            /\ UNCHANGED <<buf, reqBody, consumed>>
       ELSE /\ resp' = resp
            /\ IF reqBody.remain = 0
               THEN pc' = "afterResp" /\ NoIO /\ last' = "read"
                    /\ UNCHANGED <<buf, reqBody, consumed>>
               ELSE IF buf.length = 0
               THEN /\ soRead("serveClient")
                    /\ pc' = "respSoRead" /\ last' = "soRead"
                    /\ UNCHANGED <<buf, reqBody, consumed>>
               ELSE LET c == ConsumeBody(reqBody, buf)
                    IN  /\ reqBody' = c.reader
                        /\ consumed' = consumed \o c.data
                        /\ buf' = c.buf
                        /\ IF Len(c.data) = 0
                           THEN pc' = "afterResp" /\ NoIO /\ last' = "read"
                           ELSE /\ soWrite("serveClient", c.data)
                                /\ pc' = "bodyWrite" /\ last' = "soWrite"
    /\ Fixed /\ UNCHANGED <<msg, exc, reqs>>

\* RespSoReadGot without the test of data.length === 0: the empty read is
\* consumed like any other and the pull returns zero-length
RespSoReadGotNoEofTest ==
    /\ ~crashed /\ pc = "respSoRead" /\ Settled(rd)
    /\ IF rd.st = "rejected"
       THEN Throw(SocketError(rd.err)) /\ NoIO
            /\ UNCHANGED <<buf, reqBody, consumed>> /\ last' = "throw"
       ELSE LET b == bufPush(buf, rd.data)
                c == ConsumeBody(reqBody, b)
            IN  /\ reqBody' = c.reader
                /\ consumed' = consumed \o c.data
                /\ buf' = c.buf
                /\ exc' = exc
                /\ IF Len(c.data) = 0
                   THEN pc' = "afterResp" /\ NoIO /\ last' = "read"
                   ELSE /\ soWrite("serveClient", c.data)
                        /\ pc' = "bodyWrite" /\ last' = "soWrite"
    /\ Fixed /\ UNCHANGED <<msg, resp, reqs>>

\* readerFromConnLength's read, resumed after its soRead, inside
\* writeHTTPResp's loop
RespSoReadGot ==
    /\ ~crashed /\ pc = "respSoRead" /\ Settled(rd)
    /\ IF rd.st = "rejected"
       THEN Throw(SocketError(rd.err)) /\ NoIO
            /\ UNCHANGED <<buf, reqBody, consumed>> /\ last' = "throw"
       ELSE LET b == bufPush(buf, rd.data)
                c == ConsumeBody(reqBody, b)
            IN  IF Len(rd.data) = 0
                THEN /\ Throw(PlainError("Unexpected EOF from HTTP body"))
                     /\ buf' = b /\ UNCHANGED <<reqBody, consumed>>
                     /\ NoIO /\ last' = "throw"
                ELSE /\ reqBody' = c.reader
                     /\ consumed' = consumed \o c.data
                     /\ buf' = c.buf
                     /\ exc' = exc
                     /\ IF Len(c.data) = 0
                        THEN pc' = "afterResp" /\ NoIO /\ last' = "read"
                        ELSE /\ soWrite("serveClient", c.data)
                             /\ pc' = "bodyWrite" /\ last' = "soWrite"
    /\ Fixed /\ UNCHANGED <<msg, resp, reqs>>

\* writeHTTPResp: a body write is settled
BodyWrote ==
    /\ ~crashed /\ pc = "bodyWrite" /\ Settled(wr) /\ ~WriteFailed
    /\ UNCHANGED consumed
    /\ IF wr.st = "rejected"
       THEN Throw(SocketError(wr.err)) /\ last' = "throw"
       ELSE pc' = "respRead" /\ exc' = exc /\ last' = "written"
    /\ NoIO /\ Fixed /\ UNCHANGED <<buf, msg, reqBody, resp, reqs>>

\* serveClient without the test of msg.version
AfterRespKeepsOpen ==
    /\ ~crashed /\ pc = "afterResp"
    /\ UNCHANGED consumed
    /\ pc' = "drain" /\ exc' = exc /\ last' = "responded"
    /\ NoIO /\ Fixed /\ UNCHANGED <<buf, msg, reqBody, resp, reqs>>

\* part_000 serveClient: close the connection for HTTP/1.0
AfterResp ==
    /\ ~crashed /\ pc = "afterResp"
    /\ UNCHANGED consumed
    /\ IF msg.version = S_10
       THEN Return /\ last' = "return"
       ELSE pc' = "drain" /\ exc' = exc /\ last' = "responded"
    /\ NoIO /\ Fixed /\ UNCHANGED <<buf, msg, reqBody, resp, reqs>>

\* serveClient without the loop that consumes the request body
DrainSkipped ==
    /\ ~crashed /\ pc = "drain"
    /\ pc' = "cut" /\ NoIO /\ UNCHANGED <<buf, reqBody>> /\ last' = "drained"
    /\ Fixed /\ UNCHANGED <<msg, resp, exc, reqs, consumed>>

\* part_000 serveClient: while ((await reqBody.read()).length > 0) {}
Drain ==
    /\ ~crashed /\ pc = "drain"
    /\ IF reqBody.remain = 0
       THEN /\ pc' = "cut" /\ NoIO /\ last' = "drained"
            /\ UNCHANGED <<buf, reqBody, consumed>>
       ELSE IF buf.length = 0
       THEN /\ soRead("serveClient")
            /\ pc' = "drainSoRead" /\ UNCHANGED <<buf, reqBody, consumed>>
            /\ last' = "soRead"
       ELSE LET c == ConsumeBody(reqBody, buf)
            IN  /\ reqBody' = c.reader
                /\ consumed' = consumed \o c.data
                /\ buf' = c.buf
                /\ pc' = IF Len(c.data) > 0 THEN "drain" ELSE "cut"
                /\ NoIO /\ last' = "read"
    /\ Fixed /\ UNCHANGED <<msg, resp, exc, reqs>>

\* readerFromConnLength's read, resumed after its soRead, inside the drain
DrainSoReadGot ==
    /\ ~crashed /\ pc = "drainSoRead" /\ Settled(rd)
    /\ IF rd.st = "rejected"
       THEN Throw(SocketError(rd.err)) /\ UNCHANGED <<buf, reqBody, consumed>>
            /\ last' = "throw"
       ELSE LET b == bufPush(buf, rd.data)
                c == ConsumeBody(reqBody, b)
            IN  IF Len(rd.data) = 0
                THEN /\ Throw(PlainError("Unexpected EOF from HTTP body"))
                     /\ buf' = b /\ UNCHANGED <<reqBody, consumed>>
                     /\ last' = "throw"
                ELSE /\ reqBody' = c.reader
                     /\ consumed' = consumed \o c.data
                     /\ buf' = c.buf
                     /\ exc' = exc
                     /\ pc' = IF Len(c.data) > 0 THEN "drain" ELSE "cut"
                     /\ last' = "read"
    /\ NoIO /\ Fixed /\ UNCHANGED <<msg, resp, reqs>>

\* newConn's catch.  index.ts logs the exception.  part_000 builds resp
\* inside the if block and calls writeHTTPResp(conn, resp) outside it, where
\* no resp is in scope: the call throws before writeHTTPResp runs, and the
\* inner catch ignores it
Catch ==
    /\ ~crashed /\ pc = "catch"
    /\ pc' = "finally"
    /\ last' = "catch"
    /\ NoIO /\ Fixed /\ UNCHANGED loopVars

\* newConn without the socket.destroy() of its finally block
FinallyForgetsDestroy ==
    /\ ~crashed /\ pc = "finally"
    /\ pc' = "done"
    /\ last' = "destroy"
    /\ Fixed /\ UNCHANGED <<loopVars, conns, rd, wr, calls, asserts, out, sock>>

\* newConn's finally: socket.destroy()
Finally ==
    /\ ~crashed /\ pc = "finally"
    /\ sock' = [sock EXCEPT !.destroyed = @ + 1]
    /\ pc' = "done"
    /\ last' = "destroy"
    /\ Fixed /\ UNCHANGED <<loopVars, conns, rd, wr, calls, asserts, out>>

(***************************************************************************)
(* Any sequential caller of the adapter: one operation at a time           *)
(***************************************************************************)
\* how many soRead and how many soWrite calls the caller makes
MaxOps == 3

ClientRead ==
    /\ entry = "adapter" /\ ~crashed
    /\ rd.st # "pending" /\ wr.st # "pending" /\ ~WriteFailed
    /\ calls.soRead < MaxOps
    /\ soRead("serveClient")
    /\ last' = "soRead"
    /\ Fixed /\ UNCHANGED <<loopVars, pc>>

ClientWrite ==
    /\ entry = "adapter" /\ ~crashed
    /\ rd.st # "pending" /\ wr.st # "pending" /\ ~WriteFailed
    /\ calls.soWrite < MaxOps
    /\ soWrite("serveClient", I_Hi)
    /\ last' = "soWrite"
    /\ Fixed /\ UNCHANGED <<loopVars, pc>>

(***************************************************************************)
(* Specifications                                                          *)
(***************************************************************************)
InitCommon ==
    /\ pos = 0
    /\ sock = [flowing |-> FALSE, rstate |-> "open", err |-> "null",
               destroyed |-> 0, lost |-> 0]
    /\ conns = [a \in Adapters |-> soInit]
    /\ rd = NoPromise
    /\ wr = NoPromise
    /\ buf = EmptyBuf
    /\ msg = NoMsg
    /\ reqBody = NoReader
    /\ resp = NoResp
    /\ exc = NoExc
    /\ out = <<>>
    /\ asserts = {}
    /\ calls = [soRead |-> 0, soWrite |-> 0, resume |-> 0, pause |-> 0,
                write |-> 0, data |-> 0]
    /\ reqs = <<>>
    /\ crashed = FALSE
    /\ last = "init"
    /\ consumed = <<>>
    /\ op = NoOp

\* a connection was accepted (paused: pauseOnConnect) by one of the programs
Init ==
    /\ entry \in {"echo", "http", "serve"}
    /\ \E i \in IF entry = "echo" THEN EchoInputs ELSE HttpInputs :
           stream = i.bytes /\ cuts = i.cuts
    /\ resolved \in IF entry = "echo" THEN {{}} ELSE SUBSET Misspelled
    /\ listeners = <<>>
    /\ pc = "idle"
    /\ InitCommon

Events == SockData \/ SockEnd \/ SockError \/ WriteDone

Next ==
    \/ Accept \/ EchoRead \/ EchoGot \/ EchoWrote
    \/ Cut \/ HdrGot \/ Dispatch \/ HdrWrote \/ RespRead \/ RespSoReadGot
    \/ BodyWrote \/ AfterResp \/ Drain \/ DrainSoReadGot
    \/ Catch \/ Finally
    \/ Events

Spec == Init /\ [][Next]_vars

\* Cut is enabled exactly when ~crashed /\ pc = "cut", and every Cut step
\* leaves pc = "cut": under [][Next]_vars, WF_vars(Cut) says that the function
\* does not stand at "cut" for ever.  The same holds of Dispatch.
CutEnabled == ~crashed /\ pc = "cut"
DispatchEnabled == ~crashed /\ pc = "dispatch"

\* The event loop runs every continuation whose promise is settled: weak
\* fairness of each step of the async functions (of Cut and Dispatch in the
\* form above).
FairProgram ==
    /\ WF_vars(Accept) /\ WF_vars(EchoRead) /\ WF_vars(EchoGot)
    /\ WF_vars(EchoWrote)
    /\ []<>~CutEnabled
    /\ WF_vars(HdrGot)
    /\ []<>~DispatchEnabled
    /\ WF_vars(HdrWrote) /\ WF_vars(RespRead) /\ WF_vars(RespSoReadGot)
    /\ WF_vars(BodyWrote) /\ WF_vars(AfterResp) /\ WF_vars(Drain)
    /\ WF_vars(DrainSoReadGot) /\ WF_vars(Catch) /\ WF_vars(Finally)

\* The socket delivers the chunks and the FIN the peer has sent while it is
\* flowing, and every socket.write gets its callback, one that failed on an
\* open socket the 'error' that follows it.  A write that failed after 'end'
\* may get none.  A fault of the connection may come or not.
FairTransport ==
    /\ WF_vars(SockData)
    /\ WF_vars(SockEnd)
    /\ WF_vars(WriteDone)
    /\ WF_vars(WriteFailed /\ SockError)

FairSpec == Init /\ [][Next]_vars /\ FairProgram /\ FairTransport

\* the adapter after soInit, under any sequential caller
InitAdapter ==
    /\ entry = "adapter"
    /\ resolved = {}
    /\ \E i \in EchoInputs : stream = i.bytes /\ cuts = i.cuts
    /\ listeners = <<"serveClient">>
    /\ pc = "client"
    /\ InitCommon

NextAdapter == ClientRead \/ ClientWrite \/ Events

SpecAdapter == InitAdapter /\ [][NextAdapter]_vars

(***************************************************************************)
(* The DynBuf under any caller: bufPush of any chunk, bufPop of any length *)
(* up to the occupied one                                                  *)
(***************************************************************************)
\* how many DynBuf calls the caller makes
MaxBufOps == 4

\* the chunks pushed: empty, short ones, and one longer than the 32-byte floor
Chunks == {<<>>, <<1>>, <<2, 3, 4>>, [i \in 1..33 |-> 100 + i]}

BufUnchanged ==
    UNCHANGED <<entry, stream, cuts, pos, sock, listeners, conns, rd, wr, pc,
                msg, reqBody, resp, exc, out, asserts, calls, reqs, crashed,
                last, consumed, resolved>>

BufPushStep ==
    /\ entry = "dynbuf" /\ op.k < MaxBufOps
    /\ \E x \in Chunks :
          /\ buf' = bufPush(buf, x)
          /\ op' = [name |-> "bufPush", data |-> x, n |-> 0, k |-> op.k + 1]
    /\ BufUnchanged

BufPopStep ==
    /\ entry = "dynbuf" /\ op.k < MaxBufOps
    /\ \E n \in 0..buf.length :
          /\ buf' = bufPop(buf, n)
          /\ op' = [name |-> "bufPop", data |-> <<>>, n |-> n, k |-> op.k + 1]
    /\ BufUnchanged

\* a fresh buffer: {data: Buffer.alloc(0), length: 0}
InitBuf ==
    /\ entry = "dynbuf"
    /\ resolved = {}
    /\ stream = <<>> /\ cuts = {}
    /\ listeners = <<>>
    /\ pc = "caller"
    /\ InitCommon

NextBuf == BufPushStep \/ BufPopStep

SpecBuf == InitBuf /\ [][NextBuf]_vars

(***************************************************************************)
(* Claims                                                                  *)
(***************************************************************************)
SC == conns["serveClient"]

\* C1: on every exit path of newConn (index.ts and part_000) the socket is
\* destroyed exactly once, and once it is destroyed the connection takes no
\* further step: no soRead, no soWrite
C1_ClosedExactlyOnce ==
    /\ sock.destroyed <= 1
    /\ (pc = "done" /\ entry \in {"echo", "http"}) => sock.destroyed = 1
    /\ sock.destroyed > 0 => (pc = "done" /\ last = "destroy")
    /\ last \in {"soRead", "soWrite", "readerFromReq", "cutMessage"}
           => sock.destroyed = 0

\* C1 witness: part_000's newConn has left through its catch after a
\* transport fault and closed the socket
C1_Witness ==
    /\ entry = "http" /\ pc = "done" /\ sock.destroyed = 1
    /\ exc.kind = "SocketError"

\* C2: soRead is never called while a read is pending (its assertion holds),
\* at most one adapter holds a read continuation, and the continuation held
\* is that of the latest soRead, still pending
C2_SinglePendingRead ==
    /\ \A a \in Adapters : <<"soRead", a>> \notin asserts
    /\ Cardinality({a \in Adapters : conns[a].reader # 0}) <= 1
    /\ \A a \in Adapters :
           conns[a].reader # 0
               => rd.st = "pending" /\ rd.owner = a /\ rd.id = conns[a].reader

\* C2 witness: part_000's serveClient is reading the request body from the
\* socket, after the read that brought the header
C2_Witness ==
    /\ entry = "serve" /\ pc = "respSoRead" /\ rd.st = "pending"
    /\ calls.soRead >= 2 /\ SC.reader = rd.id

\* C3: the 'error' handler records the emitted error and fails the pending
\* read with it; from then on the recorded error never changes, every soRead
\* is rejected with it without registering a reader or resuming the socket
\* (also when the end of the stream was recorded before), and every soWrite
\* is rejected with it without calling socket.write
C3_StickyError ==
    [][ /\ (sock.rstate # "errored" /\ sock'.rstate = "errored")
            => /\ conns'["serveClient"].err = sock'.err
               /\ conns'["serveClient"].err # "null"
               /\ rd.st = "pending"
                    => rd'.st = "rejected" /\ rd'.err = sock'.err
        /\ sock.rstate = "errored"
            => /\ conns'["serveClient"].err = sock.err
               /\ calls'.soRead # calls.soRead
                    => /\ rd'.st = "rejected" /\ rd'.err = sock.err
                       /\ conns' = conns
                       /\ sock' = sock
                       /\ calls'.resume = calls.resume
               /\ calls'.soWrite # calls.soWrite
                    => /\ wr'.st = "rejected" /\ wr'.err = sock.err
                       /\ calls'.write = calls.write
                       /\ out' = out
      ]_vars

\* C3 witness: a soRead was rejected at once on a connection that had
\* recorded the end of the stream and then an error
C3_Witness ==
    /\ entry = "adapter" /\ last = "soRead"
    /\ SC.ended /\ SC.err # "null"
    /\ rd.st = "rejected" /\ rd.err = SC.err /\ SC.reader = 0

\* C4: when the socket emits 'end' a pending read is resolved with an empty
\* buffer, and every soRead after it (no error recorded) is resolved with an
\* empty buffer at once: no reader is registered, the socket is not resumed
C4_EndOfStream ==
    [][ /\ (sock.rstate = "open" /\ sock'.rstate = "ended" /\ rd.st = "pending")
            => rd'.st = "resolved" /\ rd'.data = <<>>
        /\ (sock.rstate = "ended" /\ calls'.soRead # calls.soRead)
            => /\ rd'.st = "resolved" /\ rd'.data = <<>>
               /\ conns'["serveClient"].reader = 0
               /\ calls'.resume = calls.resume
               /\ sock' = sock
      ]_vars

\* C4 witness: a soRead on a connection whose stream has ended was resolved
\* with an empty buffer at once
C4_Witness ==
    /\ entry = "adapter" /\ last = "soRead" /\ sock.rstate = "ended"
    /\ SC.ended /\ SC.err = "null"
    /\ rd.st = "resolved" /\ rd.data = <<>> /\ SC.reader = 0

\* C5: whenever 'data' is emitted every adapter registered on the socket has
\* a pending read (the handler's console.assert(conn.reader) holds), and no
\* more chunks are delivered than soRead was called
C5_Backpressure ==
    /\ \A a \in Adapters : <<"data", a>> \notin asserts
    /\ ~crashed
    /\ calls.data <= calls.soRead

\* what part_000's serveClient does with the stream b when all of it is in
\* the buffer after one read and the end of the stream follows: the requests
\* it extracts and the exception that ends it (none: it returns)
RECURSIVE WholeRun(_, _)
WholeRun(b, acc) ==
    LET r == cutMessage([data |-> b, length |-> Len(b)])
    IN  IF r.t = "throw" THEN [reqs |-> acc, exc |-> r.exc]
        ELSE IF r.t = "null"
        THEN [reqs |-> acc,
              exc  |-> IF Len(b) = 0 THEN NoExc
                       ELSE HTTPError(400, "Unexpected EOF.")]
        ELSE LET rr   == readerFromReq(r.msg)
                 got  == Append(acc, r.msg)
                 rest == Occupied(r.buf)
                 n    == rr.reader.length
             IN  IF "readFromReq" \notin resolved
                 THEN [reqs |-> got,
                       exc  |-> ReferenceError("readFromReq is not defined")]
                 ELSE IF rr.t = "throw" THEN [reqs |-> got, exc |-> rr.exc]
                 ELSE IF handleReq(r.msg).body # "req" /\ r.msg.version = S_10
                 THEN [reqs |-> got, exc |-> NoExc]
                 ELSE IF Len(rest) < n
                 THEN [reqs |-> got,
                       exc  |-> PlainError("Unexpected EOF from HTTP body")]
                 ELSE IF r.msg.version = S_10
                 THEN [reqs |-> got, exc |-> NoExc]
                 ELSE WholeRun(SubSeq(rest, n + 1, Len(rest)), got)

\* C6: however the stream is cut into chunks, serveClient ends with the
\* requests and the outcome it has when the whole stream comes as one chunk
\* (transport faults aside)
C6_ChunkIndependence ==
    (entry = "serve" /\ pc = "done" /\ exc.kind # "SocketError")
        => [reqs |-> reqs, exc |-> exc] = WholeRun(stream, <<>>)

\* the length of the header a request was parsed from
RECURSIVE FieldsSize(_)
FieldsSize(hs) ==
    IF Len(hs) = 0 THEN 0 ELSE Len(Head(hs)) + 2 + FieldsSize(Tail(hs))

ReqSize(req) ==
    Len(req.method) + 1 + Len(req.uri) + 1 + Len(S_HTTP) + Len(req.version) + 2
        + FieldsSize(req.headers) + 2

\* C7: no request whose header is longer than kMaxHeaderLen is extracted and
\* handed to the handler
C7_NoOversizedHeader ==
    \A i \in 1..Len(reqs) : ReqSize(reqs[i]) <= kMaxHeaderLen

TermAbsent(b) == indexOf(b.data, b.length, HeaderEnd) < 0

\* C8 as claimed: with no terminator in the buffer cutMessage reports
\* "incomplete" while the occupied length is at most kMaxHeaderLen, and
\* throws "header is too large" only beyond it
C8_IncompleteUpToMax ==
    (last = "cutMessage" /\ pc # "dispatch" /\ TermAbsent(buf))
        => IF buf.length <= kMaxHeaderLen
           THEN pc = "hdrRead" /\ exc = NoExc
           ELSE exc = HTTPError(413, "header is too large")

\* C8 as amended: with no terminator in the buffer cutMessage reports
\* "incomplete" while the occupied length is below kMaxHeaderLen, and throws
\* "header is too large" once the occupied length reaches kMaxHeaderLen
C8_IncompleteBelowMax ==
    (last = "cutMessage" /\ pc # "dispatch" /\ TermAbsent(buf))
        => IF buf.length < kMaxHeaderLen
           THEN pc = "hdrRead" /\ exc = NoExc
           ELSE exc = HTTPError(413, "header is too large") /\ pc = "done"

\* C8 witness: cutMessage threw on a buffer of exactly kMaxHeaderLen bytes
\* that hold no terminator
C8_Witness ==
    /\ entry = "serve" /\ last = "cutMessage" /\ TermAbsent(buf)
    /\ buf.length = kMaxHeaderLen
    /\ exc = HTTPError(413, "header is too large")

\* the verbs without a body
NoBodyMethod(m) == m = S_GET \/ m = <<72, 69, 65, 68>>
\* the request's Content-Length field
DeclaredLength(req) == fieldGet(req.headers, S_ContentLength)

\* C9: for a request whose method allows a body and whose Content-Length is
\* a number n, readerFromReq gives the reader of known length n, n bytes
\* remaining, and the response is begun
C9_LengthReader ==
    (/\ last = "readerFromReq"
     /\ ~NoBodyMethod(msg.method)
     /\ DeclaredLength(msg).found
     /\ ~parseDec(DeclaredLength(msg).val).nan)
        => /\ pc = "hdrWrite"
           /\ reqBody.kind = "conn"
           /\ reqBody.length = parseDec(DeclaredLength(msg).val).val
           /\ reqBody.remain = reqBody.length

\* C10: for a request whose method forbids a body and whose Content-Length is
\* a number above 0, readerFromReq throws HTTPError(400, 'HTTP body not
\* allowed.')
C10_BodyNotAllowed ==
    (/\ last = "readerFromReq"
     /\ NoBodyMethod(msg.method)
     /\ DeclaredLength(msg).found
     /\ ~parseDec(DeclaredLength(msg).val).nan
     /\ parseDec(DeclaredLength(msg).val).val > 0)
        => exc = HTTPError(400, "HTTP body not allowed.")

\* C11: for a request whose method is GET or HEAD and whose Content-Length is
\* absent or 0, readerFromReq gives a reader of length 0 with nothing
\* remaining, and the response is begun (no exception)
C11_NoBodyReader ==
    (/\ last = "readerFromReq"
     /\ NoBodyMethod(msg.method)
     /\ \/ ~DeclaredLength(msg).found
        \/ /\ ~parseDec(DeclaredLength(msg).val).nan
           /\ parseDec(DeclaredLength(msg).val).val = 0)
        => /\ exc = NoExc
           /\ pc = "hdrWrite"
           /\ reqBody.kind = "conn"
           /\ reqBody.length = 0
           /\ reqBody.remain = 0

\* a pull of the request's bounded reader starts: reqBody.read() is called by
\* writeHTTPResp (for /echo) or by the drain
Pulling ==
    /\ reqBody.kind = "conn"
    /\ (pc = "respRead" /\ resp.body = "req") \/ pc = "drain"
\* a pull resumes after its soRead brought data
PullResumed ==
    /\ reqBody.kind = "conn"
    /\ pc \in {"respSoRead", "drainSoRead"}
    /\ rd.st = "resolved" /\ Len(rd.data) > 0
\* what is buffered when the pull consumes
Buffered == IF PullResumed THEN Occupied(buf) \o rd.data ELSE Occupied(buf)

\* C12: a bounded reader of length n keeps 0 <= remain <= n; a pull with
\* bytes at hand returns min(buffered, remain) > 0 bytes, the first ones
\* buffered, and leaves the rest in the buffer; a pull with remain = 0 returns
\* zero-length, calls no soRead and leaves the buffer alone; so the bytes
\* pulled up to the first zero-length result are n
C12_BoundedReader ==
    [][ LET taken == reqBody.remain - reqBody'.remain
        IN  /\ reqBody.remain >= 0 /\ reqBody.remain <= reqBody.length
            /\ reqBody'.remain >= 0 /\ reqBody'.remain <= reqBody'.length
            /\ (Pulling /\ reqBody.remain = 0)
                  => /\ buf' = buf
                     /\ reqBody' = reqBody
                     /\ calls'.soRead = calls.soRead
                     /\ pc' \in {"afterResp", "cut"}
            /\ ((Pulling /\ reqBody.remain > 0 /\ buf.length > 0)
                    \/ (PullResumed /\ pc' # pc))
                  => /\ taken = Min(Len(Buffered), reqBody.remain)
                     /\ taken > 0
                     /\ reqBody'.length = reqBody.length
                     /\ Occupied(buf') = SubSeq(Buffered, taken + 1, Len(Buffered))
                     /\ pc' \in {"bodyWrite", "drain"}
                     /\ pc' = "bodyWrite"
                           => wr'.data = SubSeq(Buffered, 1, taken)
      ]_vars

\* C12 witness: of a body of 5 bytes the first pull returned the 2 bytes
\* buffered, 'he', which are being echoed; 3 remain
C12_Witness ==
    /\ entry = "serve" /\ pc = "bodyWrite"
    /\ reqBody.kind = "conn" /\ reqBody.length = 5 /\ reqBody.remain = 3
    /\ wr.data = <<104, 101>>

\* C13: when the soRead of a pull returns zero-length (remain > 0), the pull
\* throws 'Unexpected EOF from HTTP body': it does not return, nothing is
\* written, and the reader's remain is as before
C13_MidBodyEof ==
    [][ (/\ reqBody.kind = "conn"
         /\ pc \in {"respSoRead", "drainSoRead"}
         /\ rd.st = "resolved" /\ Len(rd.data) = 0)
            => /\ reqBody.remain > 0
               /\ exc' = PlainError("Unexpected EOF from HTTP body")
               /\ pc' \in {"done", "catch"}
               /\ reqBody' = reqBody
               /\ out' = out
      ]_vars

\* C13 witness: the stream ended after 2 of the 5 bytes of an echoed body and
\* the pull threw with 3 bytes remaining
C13_Witness ==
    /\ entry = "serve" /\ pc = "done" /\ last = "throw"
    /\ exc = PlainError("Unexpected EOF from HTTP body")
    /\ resp.body = "req" /\ reqBody.length = 5 /\ reqBody.remain = 3
    /\ sock.rstate = "ended"

\* 'HTTP/1.1 ', the start of a status line
S_StatusStart == S_HTTP \o <<49, 46, 49, SP>>
\* pat occurs in data
Occurs(pat, data) == indexOf(data, Len(data), pat) >= 0
\* the protocol violation part_000's serveClient raises on the whole stream
Violation == WholeRun(stream, <<>>).exc

\* C14: when the peer's stream holds a protocol violation and part_000's
\* newConn has come to rest on it (all bytes delivered, no transport fault),
\* the violation was caught, an error response with its status code was
\* written (a 4xx or 5xx status for the plain Error of a body cut short), and
\* the socket was destroyed
C14_ErrorResponse ==
    (/\ entry = "http"
     /\ crashed \/ pc = "done"
     /\ pos = Len(stream) /\ sock.rstate # "errored" /\ wr.st # "rejected"
     /\ Violation.kind \in {"HTTPError", "Error"})
        => /\ ~crashed
           /\ exc = Violation
           /\ sock.destroyed = 1
           /\ IF Violation.kind = "HTTPError"
              THEN Occurs(S_StatusStart \o FmtDec(Violation.code), out)
              ELSE \/ Occurs(S_StatusStart \o <<52>>, out)
                   \/ Occurs(S_StatusStart \o <<53>>, out)

\* C15: when the soRead that awaits a header returns zero-length, serveClient
\* returns (no exception, nothing written) if the buffer is empty, and throws
\* HTTPError(400, 'Unexpected EOF.') if the buffer holds an incomplete header;
\* a connection of the HTTP server that ends without any request and without
\* exception has written nothing
C15_HeaderEof ==
    [][ /\ (pc = "hdrRead" /\ rd.st = "resolved" /\ Len(rd.data) = 0)
            => IF buf.length = 0
               THEN /\ exc' = NoExc
                    /\ pc' \in {"done", "finally"}
                    /\ out' = out /\ calls'.soWrite = calls.soWrite
               ELSE /\ exc' = HTTPError(400, "Unexpected EOF.")
                    /\ pc' \in {"done", "catch"}
        /\ (entry # "echo" /\ pc' = "done" /\ exc' = NoExc /\ reqs' = <<>>)
            => out' = <<>>
      ]_vars

\* C15 witness: the stream ended inside a header ('GET / HT') and serveClient
\* threw the unexpected end of stream
C15_Witness ==
    /\ entry = "serve" /\ pc = "done" /\ last = "throw"
    /\ exc = HTTPError(400, "Unexpected EOF.")
    /\ buf.length > 0 /\ Occupied(buf) = stream /\ reqs = <<>>
    /\ sock.rstate = "ended"

\* the bytes of the stream that the requests rs take: each header and the
\* body its reader stands for
RECURSIVE FramedLen(_)
FramedLen(rs) ==
    IF Len(rs) = 0 THEN 0
    ELSE ReqSize(Head(rs)) + readerFromReq(Head(rs)).reader.length
             + FramedLen(Tail(rs))

\* C16: whenever serveClient is back at framing after a response, the
\* request's body reader has nothing remaining, and the buffer starts right
\* behind that request's body: all headers and bodies so far are consumed,
\* what is buffered is what follows them in the stream
C16_DrainDiscipline ==
    (entry = "serve" /\ pc = "cut" /\ Len(reqs) > 0)
        => /\ reqBody.kind = "conn" /\ reqBody.remain = 0
           /\ pos - buf.length = FramedLen(reqs)
           /\ Occupied(buf) = SubSeq(stream, FramedLen(reqs) + 1, pos)

\* C16 witness: the handler answered 'hello world.' without reading the
\* 3-byte body; the drain consumed it and the next request is in front
C16_Witness ==
    /\ entry = "serve" /\ pc = "cut" /\ last = "drained"
    /\ resp.body = "mem" /\ reqBody.length = 3 /\ reqBody.remain = 0
    /\ buf.length > 0 /\ IsPrefix(S_GET, Occupied(buf))

\* how many status lines the written bytes hold
StatusLines(data) ==
    Cardinality({i \in 0..(Len(data) - Len(S_StatusStart)) :
                    \A k \in 1..Len(S_StatusStart) : data[i + k] = S_StatusStart[k]})

\* C17: a request of version 1.0 is the last one of its connection: no header
\* is framed and no body drained behind it, and when serveClient has returned
\* after it one response was written for each request
C17_VersionRule ==
    /\ \A i \in 1..Len(reqs) : reqs[i].version = S_10 => i = Len(reqs)
    /\ (Len(reqs) > 0 /\ reqs[Len(reqs)].version = S_10)
          => /\ pc \in {"dispatch", "hdrWrite", "respRead", "respSoRead",
                        "bodyWrite", "afterResp", "done"}
             /\ (pc = "done" /\ exc = NoExc) => StatusLines(out) = Len(reqs)

\* C17 witness: serveClient returned after answering 'GET / HTTP/1.0' with
\* the complete request that followed it still in the buffer
C17_Witness ==
    /\ entry = "serve" /\ pc = "done" /\ last = "return" /\ exc = NoExc
    /\ Len(reqs) = 1 /\ reqs[1].version = S_10
    /\ Occurs(HeaderEnd, Occupied(buf))
    /\ StatusLines(out) = 1

\* the response body's declared length, and how much of it is written
RespLength == IF resp.body = "mem" THEN resp.mem.length ELSE reqBody.length
RespWritten ==
    IF resp.body = "mem"
    THEN IF resp.mem.done THEN Len(resp.mem.data) ELSE 0
    ELSE reqBody.length - reqBody.remain

\* C18: while a response is being written (no transport error recorded and
\* no end of the peer's stream, so that every soWrite is sent) its headers
\* hold one Content-Length field, whose value is the body reader's length; the bytes
\* written end with the serialized header followed by the body bytes written
\* so far (the header goes first, once per request), and when writeHTTPResp
\* has returned the body bytes written are as many as Content-Length says
C18_ContentLength ==
    (/\ pc \in {"hdrWrite", "respRead", "respSoRead", "bodyWrite", "afterResp"}
     /\ SC.err = "null" /\ ~SC.ended)
        => LET hdr == encodeHTTPResp(resp.code, resp.headers)
               w   == RespWritten
           IN  /\ Cardinality({i \in 1..Len(resp.headers) :
                      LowerStr(FieldName(resp.headers[i]))
                          = LowerStr(S_ContentLength)}) = 1
               /\ fieldGet(resp.headers, S_ContentLength).val = FmtDec(RespLength)
               /\ w >= 0 /\ w <= RespLength
               /\ Len(out) >= Len(hdr) + w
               /\ SubSeq(out, Len(out) - w - Len(hdr) + 1, Len(out) - w) = hdr
               /\ StatusLines(out) = Len(reqs)
               /\ pc = "hdrWrite" => w = 0
               /\ pc = "afterResp" => w = RespLength

\* C18 witness: the response to POST /echo with a body of 5 bytes is written:
\* 'Content-Length: 5' and then 'hello'
C18_Witness ==
    /\ entry = "serve" /\ pc = "afterResp" /\ resp.body = "req"
    /\ SC.err = "null" /\ reqBody.length = 5
    /\ fieldGet(resp.headers, S_ContentLength).val = <<53>>
    /\ SubSeq(out, Len(out) - 4, Len(out)) = <<104, 101, 108, 108, 111>>

\* C19: bufPop(n), 0 <= n <= length, lowers the occupied length by n and
\* leaves at offset 0 the bytes that were at offsets n..length-1; bufPush(x)
\* keeps the occupied bytes, puts x right behind them and raises the
\* occupied length by the length of x
C19_PushPop ==
    [][ /\ op'.name = "bufPush"
            => /\ buf'.length = buf.length + Len(op'.data)
               /\ Occupied(buf') = Occupied(buf) \o op'.data
        /\ op'.name = "bufPop"
            => /\ buf'.length = buf.length - op'.n
               /\ Occupied(buf')
                      = SubSeq(Occupied(buf), op'.n + 1, buf.length)
      ]_vars

\* C19 witness: after pushes that made the buffer grow to 64 bytes, a bufPop
\* of some but not all of the occupied bytes
C19_Witness ==
    /\ entry = "dynbuf" /\ op.name = "bufPop" /\ op.n > 0
    /\ buf.length > 0 /\ Len(buf.data) = 64

\* C20: in every step of the connection 0 <= occupied length <= capacity,
\* the capacity does not shrink, and a capacity that grows (on the bufPush of
\* the data just read) becomes max(old capacity, 32) doubled the least
\* number of times that makes it hold the new occupied length
C20_Capacity ==
    [][ LET cap    == Len(buf.data)
            grown  == Len(buf'.data)
            newLen == buf.length + Len(rd.data)
            base   == Max(cap, 32)
        IN  /\ buf'.length >= 0 /\ buf'.length <= grown
            /\ grown >= cap
            /\ grown > cap
                  => /\ cap < newLen
                     /\ \E k \in 0..20 :
                           /\ grown = base * 2^k
                           /\ grown >= newLen
                           /\ k > 0 => base * 2^(k - 1) < newLen
      ]_vars

\* C20 witness: a buffer of 8192 bytes capacity holding 8191 bytes took 2
\* more and grew to 16384
C20_Witness ==
    /\ entry = "serve" /\ last = "bufPush"
    /\ buf.length = kMaxHeaderLen + 1 /\ Len(buf.data) = 2 * kMaxHeaderLen
    /\ Len(rd.data) = 2

\* a read whose promise is not settled, or whose callbacks an adapter holds
ReadPending == rd.st = "pending" \/ \E a \in Adapters : conns[a].reader # 0

\* the connection loop is over; under newConn (index.ts, part_000) the socket
\* is destroyed as well
Terminated == pc = "done" /\ (entry \in {"echo", "http"} => sock.destroyed = 1)

\* C21: when the socket keeps delivering the chunks and the FIN of the peer's
\* finite stream and calls back every write (an 'error' may come at any
\* moment), every pending read is eventually settled, the connection loop
\* of a server that listens eventually terminates with the socket destroyed,
\* and no read is pending once the socket is destroyed.
C21_Liveness ==
    /\ (rd.st = "pending") ~> (rd.st # "pending")
    /\ Loaded ~> Terminated
    /\ [](sock.destroyed > 0 => ~ReadPending)

\* the same for the programs that register one adapter per socket: index.ts,
\* and part_000's serveClient taken alone
C21_LivenessOneAdapter ==
    /\ (entry # "http" /\ rd.st = "pending") ~> (rd.st # "pending")
    /\ (entry # "http" /\ Loaded) ~> Terminated
    /\ [](entry # "http" /\ sock.destroyed > 0 => ~ReadPending)

\* the bytes soRead has returned to serveClient so far: what the socket has
\* delivered, less a chunk that waits in a resolved read for the function to
\* resume, and less a chunk lost to a 'data' listener that threw
Received ==
    LET awaited == pc \in {"hdrRead", "respSoRead", "drainSoRead", "echoAwaitRead"}
        held    == IF awaited /\ rd.st = "resolved" THEN Len(rd.data) ELSE 0
    IN  SubSeq(stream, 1, pos - held - sock.lost)

\* C22: in every state of a connection of part_000's serveClient, the bytes
\* read from the socket so far are, in order, the bytes taken out of the
\* buffer (the headers cutMessage parsed and the chunks the body reader
\* returned) followed by the occupied bytes of the buffer: none is lost,
\* doubled or out of place, also across pipelined requests.
C22_StreamIntegrity ==
    (entry \in {"http", "serve"} /\ ~crashed)
        => /\ Received = consumed \o Occupied(buf)
           /\ pos <= Len(stream)
           /\ buf.length >= 0 /\ buf.length <= Len(buf.data)

\* C22 witness: the first request and its 3-byte body are consumed, 'GE' of
\* the pipelined request is buffered, and the chunk that brings its rest is
\* about to be pushed
C22_Witness ==
    /\ entry = "serve" /\ pc = "hdrRead"
    /\ rd.st = "resolved" /\ Len(rd.data) > 0
    /\ Len(reqs) = 1 /\ reqBody.length = 3 /\ reqBody.remain = 0
    /\ Occupied(buf) = <<71, 69>>
    /\ consumed = SubSeq(stream, 1, Len(consumed)) /\ Len(consumed) > 3
    /\ pos = Len(stream)

====
